---- MODULE Spec2Model ----
(***************************************************************************)
(* Model of converters/template.py: the notebook preprocessing pipeline    *)
(* (cell_preprocessor, haspyout_transformer, extract_figure_transformer),  *)
(* figure naming (_new_figure), format selection (filter_data_type) and    *)
(* the ConverterTemplate constructor / read / process / convert methods.   *)
(*                                                                         *)
(* Python 2 str values are byte strings: they are modelled as sequences of *)
(* byte values (ASCII codes), so that a base64 payload, the decoded bytes  *)
(* and a generated file name are all values of one kind.                   *)
(***************************************************************************)
EXTENDS Integers, Sequences, FiniteSets, TLC

VARIABLES
    lists,          \* the list objects: the default argument of __init__ and the caller's lists
    conv,           \* the converter instances (traits, preprocessors reference, nb)
    env_filters,    \* filters['filter_data_type'] of the module-level env and texenv
    nconstructed,   \* number of constructor calls made so far
    nb0,            \* history: the notebook as read() loaded it
    pc,             \* "idle", or "running" while process() executes
    at,             \* process(): the next call of a cell function, [p, w, i]
    resources,      \* process(): its local variable resources
    log,            \* history: the cell function calls of the current process()
    runs,           \* history: the outcomes of the process()/convert() calls since read()
    sel_output,     \* filter_data_type: argument output
    sel_priority,   \* filter_data_type: self.display_data_priority
    sel_result,     \* filter_data_type: returned value
    esc_value,      \* escape_tex: argument value
    esc_result,     \* escape_tex: returned value
    returned,       \* what the last process()/convert() call of each converter gave its caller
    fig_prev,       \* _new_figure: arguments and file name of the call before the last
    fig_last        \* _new_figure: arguments and file name of the last call

vars == <<lists, conv, env_filters, nconstructed, nb0, pc, at, resources,
          log, runs, sel_output, sel_priority, sel_result,
          esc_value, esc_result, returned, fig_prev, fig_last>>

\* the variables of escape_tex and _new_figure called on their own
vars_pure == <<esc_value, esc_result, fig_prev, fig_last>>

-----------------------------------------------------------------------------
(* Bounds *)

MaxWorksheets == 2
MaxCells == 3
MaxConstructions == 2
MaxRuns == 2
MaxPriorityLen == 2

-----------------------------------------------------------------------------
(* Byte strings *)

\* ASCII codes of the characters that occur in kinds, file names and payloads
Chr ==
    [ a |-> 97, d |-> 100, e |-> 101, f |-> 102, g |-> 103, h |-> 104, i |-> 105,
      j |-> 106, l |-> 108, m |-> 109, n |-> 110, p |-> 112, s |-> 115, t |-> 116,
      v |-> 118, x |-> 120, us |-> 95, dot |-> 46, zero |-> 48 ]

None == "None"

\* the kinds as the byte strings that '%s' writes
KindStr ==
    [ html  |-> <<Chr.h, Chr.t, Chr.m, Chr.l>>,
      pdf   |-> <<Chr.p, Chr.d, Chr.f>>,
      svg   |-> <<Chr.s, Chr.v, Chr.g>>,
      latex |-> <<Chr.l, Chr.a, Chr.t, Chr.e, Chr.x>>,
      png   |-> <<Chr.p, Chr.n, Chr.g>>,
      jpg   |-> <<Chr.j, Chr.p, Chr.g>>,
      jpeg  |-> <<Chr.j, Chr.p, Chr.e, Chr.g>>,
      text  |-> <<Chr.t, Chr.e, Chr.x, Chr.t>> ]

\* decimal digits of a natural number, as '%i' writes them
RECURSIVE Decimal(_)
Decimal(n) ==
    IF n < 10 THEN <<Chr.zero + n>>
    ELSE Append(Decimal(n \div 10), Chr.zero + (n % 10))

Format02i_wrap(n) ==
    LET d == Decimal(n % 100) IN IF Len(d) < 2 THEN <<Chr.zero>> \o d ELSE d

\* '%02i': zero-padded to a minimum width of 2
Format02i(n) ==
    LET d == Decimal(n) IN IF Len(d) < 2 THEN <<Chr.zero>> \o d ELSE d

\* value of a character in the base64 alphabet, -1 for any other character
B64Value(c) ==
    IF c >= 65 /\ c <= 90 THEN c - 65
    ELSE IF c >= 97 /\ c <= 122 THEN c - 97 + 26
    ELSE IF c >= 48 /\ c <= 57 THEN c - 48 + 52
    ELSE IF c = 43 THEN 62
    ELSE IF c = 47 THEN 63
    ELSE -1

\* the alphabet characters of s, in order: the decoder skips all others
RECURSIVE B64Sextets(_)
B64Sextets(s) ==
    IF s = << >> THEN << >>
    ELSE IF B64Value(Head(s)) = -1 THEN B64Sextets(Tail(s))
    ELSE <<B64Value(Head(s))>> \o B64Sextets(Tail(s))

\* bytes of the complete groups of four sextets
RECURSIVE B64Bytes(_)
B64Bytes(q) ==
    IF Len(q) < 4 THEN << >>
    ELSE << q[1] * 4 + (q[2] \div 16),
            (q[2] % 16) * 16 + (q[3] \div 4),
            (q[3] % 4) * 64 + q[4] >> \o B64Bytes(SubSeq(q, 5, Len(q)))

\* str.decode('base64') of a string without '=' padding: bits left over at
\* the end of the input raise binascii.Error (Incorrect padding)
B64Raises(s) == Len(B64Sextets(s)) % 4 # 0
B64Decode(s) == B64Bytes(B64Sextets(s))

-----------------------------------------------------------------------------
(* Notebooks that read() can load *)

SeqsUpTo(S, n) == UNION {[1..k -> S] : k \in 0..n}

PayloadPngA == <<81, 85, 74, 68>>     \* 'QUJD', base64 of 'ABC'
PayloadPngB == <<81, 85, 74, 69>>     \* 'QUJE', base64 of 'ABD'
PayloadPngBad == <<81, 85, 74>>       \* 'QUJ', not decodable
PayloadSvg == <<60, 115, 62>>         \* '<s>'
PayloadText == <<97>>                 \* 'a'

OutputPyoutPng ==
    [output_type |-> "pyout", data |-> [png |-> PayloadPngA, text |-> PayloadText]]
OutputDisplaySvgPng ==
    [output_type |-> "display_data", data |-> [svg |-> PayloadSvg, png |-> PayloadPngB]]
OutputStream ==
    [output_type |-> "stream", data |-> [text |-> PayloadText]]
OutputDisplayBad ==
    [output_type |-> "display_data", data |-> [png |-> PayloadPngBad]]

\* the cells a worksheet is built from: a cell without an outputs field, and
\* code cells with their list of outputs
CellChoices ==
    { [cell_type |-> "markdown", has_outputs |-> FALSE, outputs |-> << >>],
      [cell_type |-> "code", has_outputs |-> TRUE, outputs |-> <<OutputDisplaySvgPng>>],
      [cell_type |-> "code", has_outputs |-> TRUE, outputs |-> <<OutputStream, OutputPyoutPng>>],
      [cell_type |-> "code", has_outputs |-> TRUE, outputs |-> <<OutputDisplayBad>>] }

\* the cell of choice ch at index i of worksheet w; its source tells it from
\* every other cell of the notebook
MakeCell(ch, w, i) ==
    LET base == [cell_type |-> ch.cell_type, source |-> <<Chr.zero + w, Chr.zero + i>>]
    IN  IF ch.has_outputs THEN ("outputs" :> ch.outputs) @@ base ELSE base

MakeNotebook(chs) ==
    [w \in 1..Len(chs) |->
        [cells |-> [i \in 1..Len(chs[w]) |-> MakeCell(chs[w][i], w, i)]]]

\* the notebooks of k worksheets that hold at most n cells together
RECURSIVE NotebooksOf(_, _)
NotebooksOf(k, n) ==
    IF k = 0 THEN {<< >>}
    ELSE UNION {{<<ws>> \o rest : rest \in NotebooksOf(k - 1, n - Len(ws))} :
                    ws \in SeqsUpTo(CellChoices, n)}

\* at most MaxWorksheets worksheets and, in all of them together, MaxCells cells
NotebookChoices == UNION {NotebooksOf(k, MaxCells) : k \in 0..MaxWorksheets}

-----------------------------------------------------------------------------
(* The cell functions *)

EmptyMap == [k \in {} |-> << >>]

\* other[key] = value
DictSet(other, key, value) ==
    [k \in (DOMAIN other) \cup {key} |-> IF k = key THEN value ELSE other[k]]

\* cell.get('outputs', [])
GetOutputs(cell) == IF "outputs" \in DOMAIN cell THEN cell.outputs ELSE << >>

RECURSIVE AnyPyout(_, _)
AnyPyout(outputs, k) ==
    IF k > Len(outputs) THEN FALSE
    ELSE IF outputs[k].output_type = "pyout" THEN TRUE
    ELSE AnyPyout(outputs, k + 1)

haspyout_transformer_first(cell, other, count) ==
    [ cell |-> [type |-> cell.cell_type,
                haspyout |-> /\ GetOutputs(cell) # << >>
                             /\ GetOutputs(cell)[1].output_type = "pyout"] @@ cell,
      other |-> other,
      raised |-> FALSE ]

haspyout_transformer(cell, other, count) ==
    [ cell |-> [type |-> cell.cell_type, haspyout |-> AnyPyout(GetOutputs(cell), 1)] @@ cell,
      other |-> other,
      raised |-> FALSE ]

new_figure_raw(data, fmt, count) ==
    [ figname |-> <<Chr.us, Chr.f, Chr.i, Chr.g, Chr.us>> \o Format02i(count)
                    \o <<Chr.dot>> \o KindStr[fmt],
      data |-> data,
      raised |-> FALSE ]

new_figure(data, fmt, count) ==
    [ figname |-> <<Chr.us, Chr.f, Chr.i, Chr.g, Chr.us>> \o Format02i(count)
                    \o <<Chr.dot>> \o KindStr[fmt],
      data |-> IF fmt \in {"png", "jpg", "pdf"} THEN B64Decode(data) ELSE data,
      raised |-> fmt \in {"png", "jpg", "pdf"} /\ B64Raises(data) ]

FigureTypes == <<"html", "pdf", "svg", "latex", "png", "jpg", "jpeg">>

\* the two nested loops of extract_figure_transformer, from output i and
\* type number t on; an exception leaves the cell as mutated so far
RECURSIVE ExtractLoop(_, _, _, _, _)
ExtractLoop(cell, other, count, i, t) ==
    IF i > Len(GetOutputs(cell)) THEN [cell |-> cell, other |-> other, raised |-> FALSE]
    ELSE IF t > Len(FigureTypes) THEN ExtractLoop(cell, other, count, i + 1, 1)
    ELSE
        LET type == FigureTypes[t]
            out == cell.outputs[i]
        IN  IF type \in DOMAIN out.data
            THEN LET fig == new_figure(out.data[type], type, count)
                     newdata == (("key_" \o type) :> fig.figname)
                                    @@ (type :> fig.figname) @@ out.data
                     newcell == [cell EXCEPT !.outputs[i].data = newdata]
                 IN  IF fig.raised
                     THEN [cell |-> cell, other |-> other, raised |-> TRUE]
                     ELSE ExtractLoop(newcell, DictSet(other, fig.figname, fig.data),
                                      count + 1, i, t + 1)
            ELSE ExtractLoop(cell, other, count, i, t + 1)

extract_figure_transformer(cell, other, count) == ExtractLoop(cell, other, count, 1, 1)

\* the function a name of a preprocessors list stands for
CallFunction(name, cell, other, index) ==
    IF name = "haspyout_transformer" THEN haspyout_transformer(cell, other, index)
    ELSE extract_figure_transformer(cell, other, index)


-----------------------------------------------------------------------------
(* ConverterTemplate *)

Converters == {"A", "B"}

\* the converter whose read(), process() and convert() calls are followed
Subject == "A"

\* "default" is the list object that is the default value of the parameter
\* preprocessors; the others are lists that callers pass
ListIds == {"default", "caller1", "caller2"}

InitialLists ==
    [ default |-> << >>, caller1 |-> << >>, caller2 |-> <<"custom_transformer">> ]

display_data_priority == <<"html", "pdf", "svg", "latex", "png", "jpg", "jpeg", "text">>

NoConverter ==
    [ constructed |-> FALSE, extract_figures |-> FALSE, tex_environement |-> FALSE,
      display_data_priority |-> display_data_priority, preprocessors |-> "default",
      nb_loaded |-> FALSE, nb |-> << >> ]

\* self.preprocessors.append(...) of __init__, on the list that was passed
AppendPreprocessors(list, extract_figures) ==
    IF extract_figures
    THEN Append(Append(list, "haspyout_transformer"), "extract_figure_transformer")
    ELSE Append(list, "haspyout_transformer")

\* a returned value: None, or a list
ReturnNone == [none |-> TRUE]
ReturnList(v) == [none |-> FALSE, value |-> v]

\* the keys of an output: 'fmt in output' tests them
OutputKeys(output) == {"output_type"} \cup DOMAIN output.data

\* filter_data_type, with self.display_data_priority as priority: the loop from
\* element k of the priority list on
RECURSIVE FilterLoop(_, _, _)
FilterLoop(priority, output, k) ==
    IF k > Len(priority) THEN ReturnNone
    ELSE IF priority[k] \in OutputKeys(output) THEN ReturnList(<<priority[k]>>)
    ELSE FilterLoop(priority, output, k + 1)

filter_data_type_default(priority, output) ==
    FilterLoop(display_data_priority, output, 1)

filter_data_type(priority, output) == FilterLoop(priority, output, 1)

\* the list self.preprocessors refers to
Preprocessors(c) == lists[conv[c].preprocessors]

SetCellFirst(nb, w, i, cell) == [nb EXCEPT ![w].cells[1] = cell]

\* worksheet.cells[index] = cell
SetCell(nb, w, i, cell) == [nb EXCEPT ![w].cells[i] = cell]

\* the loops of process() and wrappedfunc: the first call to make at or after
\* preprocessor p, worksheet w, cell i; p = n + 1 when the loops are over
RECURSIVE Seek(_, _, _, _, _)
Seek(p, w, i, nb, n) ==
    IF p > n THEN [p |-> n + 1, w |-> 1, i |-> 1]
    ELSE IF w > Len(nb) THEN Seek(p + 1, 1, 1, nb, n)
    ELSE IF i > Len(nb[w].cells) THEN Seek(p, w + 1, 1, nb, n)
    ELSE [p |-> p, w |-> w, i |-> i]

FirstCall(nb, n) == Seek(1, 1, 1, nb, n)

\* cell-major order: all preprocessors on one cell, then the next cell
NextCallCellMajor(pos, nb, n) ==
    IF pos.p < n THEN [p |-> pos.p + 1, w |-> pos.w, i |-> pos.i]
    ELSE LET nx == Seek(1, pos.w, pos.i + 1, nb, 1)
         IN  IF nx.p > 1 THEN [p |-> n + 1, w |-> 1, i |-> 1] ELSE nx

NextCall(pos, nb, n) == Seek(pos.p, pos.w, pos.i + 1, nb, n)

\* value of the local variables of process() while it is not executing
NoCall == [p |-> 0, w |-> 0, i |-> 0]

\* resources = {}
NewResources == EmptyMap

\* no process() or convert() call of the converter has ended yet
NoOutcome == [called |-> FALSE]

\* _new_figure has not been called
NoFigure == [count |-> -1, fmt |-> "", figname |-> << >>]

Init ==
    /\ lists = InitialLists
    /\ conv = [c \in Converters |-> NoConverter]
    /\ env_filters = [e \in {"env", "texenv"} |-> None]
    /\ nconstructed = 0
    /\ nb0 = << >>
    /\ pc = "idle"
    /\ at = NoCall
    /\ resources = EmptyMap
    /\ log = << >>
    /\ runs = << >>
    /\ sel_output = [output_type |-> "stream", data |-> EmptyMap]
    /\ sel_priority = << >>
    /\ sel_result = ReturnNone
    /\ esc_value = << >>
    /\ esc_result = << >>
    /\ returned = [c \in Converters |-> NoOutcome]
    /\ fig_prev = NoFigure
    /\ fig_last = NoFigure

\* ConverterTemplate(preprocessors=lst, extract_figures=ef, tex_environement=tex,
\*                   display_data_priority=prio), bound to the name c
Construct(c, lst, ef, tex, prio) ==
    /\ pc = "idle"
    /\ nconstructed < MaxConstructions
    /\ nconstructed' = nconstructed + 1
    /\ lists' = [lists EXCEPT ![lst] = AppendPreprocessors(@, ef)]
    /\ conv' = [conv EXCEPT ![c] =
                    [ constructed |-> TRUE, extract_figures |-> ef,
                      tex_environement |-> tex, display_data_priority |-> prio,
                      preprocessors |-> lst, nb_loaded |-> FALSE, nb |-> << >> ]]
    /\ env_filters' = [env_filters EXCEPT ![IF tex THEN "texenv" ELSE "env"] = c]
    /\ IF c = Subject
       THEN nb0' = << >> /\ runs' = << >>
       ELSE UNCHANGED <<nb0, runs>>
    /\ returned' = [returned EXCEPT ![c] = NoOutcome]
    /\ UNCHANGED <<pc, at, resources, log, sel_output, sel_priority, sel_result, vars_pure>>

\* read(filename), for a file that holds the notebook MakeNotebook(chs); a
\* converter instance goes from Uninitialized to Loaded once
Read(chs) ==
    /\ pc = "idle"
    /\ conv[Subject].constructed
    /\ ~conv[Subject].nb_loaded
    /\ conv' = [conv EXCEPT ![Subject].nb = MakeNotebook(chs), ![Subject].nb_loaded = TRUE]
    /\ nb0' = MakeNotebook(chs)
    /\ runs' = << >>
    /\ UNCHANGED <<lists, env_filters, nconstructed, pc, at, resources, log,
                   sel_output, sel_priority, sel_result, vars_pure, returned>>

Outcome(raised, res) == [raised |-> raised, resources |-> res]

\* process(), called directly or by convert(), before read(): self.nb is None
\* and the first preprocessor raises on nb.worksheets
CallUnloaded ==
    /\ pc = "idle"
    /\ conv[Subject].constructed
    /\ ~conv[Subject].nb_loaded
    /\ Len(runs) < MaxRuns
    /\ runs' = Append(runs, Outcome(TRUE, EmptyMap))
    /\ UNCHANGED <<lists, conv, env_filters, nconstructed, nb0, pc, at, resources,
                   log, sel_output, sel_priority, sel_result, vars_pure, returned>>

\* entry of process(), called directly or by convert()
Begin ==
    /\ pc = "idle"
    /\ conv[Subject].constructed
    /\ conv[Subject].nb_loaded
    /\ Len(runs) < MaxRuns
    /\ pc' = "running"
    /\ resources' = NewResources
    /\ log' = << >>
    /\ at' = FirstCall(conv[Subject].nb, Len(Preprocessors(Subject)))
    /\ UNCHANGED <<lists, conv, env_filters, nconstructed, nb0, runs,
                   sel_output, sel_priority, sel_result, vars_pure, returned>>

\* one iteration of the inner loop of wrappedfunc
CallCell ==
    /\ pc = "running"
    /\ at.p <= Len(Preprocessors(Subject))
    /\ LET nb == conv[Subject].nb
           name == Preprocessors(Subject)[at.p]
           r == CallFunction(name, nb[at.w].cells[at.i], resources, at.i - 1)
       IN  /\ conv' = [conv EXCEPT ![Subject].nb = SetCell(nb, at.w, at.i, r.cell)]
           /\ log' = IF r.raised THEN << >>
                     ELSE Append(log, [p |-> at.p, w |-> at.w, i |-> at.i, name |-> name,
                                       other |-> resources, returned |-> r.other])
           /\ IF r.raised
              THEN /\ pc' = "idle"
                   /\ runs' = Append(runs, Outcome(TRUE, EmptyMap))
                   /\ at' = NoCall
                   /\ resources' = EmptyMap
              ELSE /\ resources' = r.other
                   /\ at' = NextCall(at, nb, Len(Preprocessors(Subject)))
                   /\ UNCHANGED <<pc, runs>>
    /\ UNCHANGED <<lists, env_filters, nconstructed, nb0,
                   sel_output, sel_priority, sel_result, vars_pure, returned>>

\* return of process(); convert() then renders the template and returns the
\* same resources
Return ==
    /\ pc = "running"
    /\ at.p > Len(Preprocessors(Subject))
    /\ pc' = "idle"
    /\ runs' = Append(runs, Outcome(FALSE, resources))
    /\ at' = NoCall
    /\ resources' = EmptyMap
    /\ log' = << >>
    /\ UNCHANGED <<lists, conv, env_filters, nconstructed, nb0,
                   sel_output, sel_priority, sel_result, vars_pure, returned>>

Next ==
    \/ \E ef \in BOOLEAN :
            Construct(Subject, "default", ef, FALSE, display_data_priority)
    \/ \E chs \in NotebookChoices : Read(chs)
    \/ CallUnloaded
    \/ Begin
    \/ CallCell
    \/ Return

Spec == Init /\ [][Next]_vars


-----------------------------------------------------------------------------
(* Constructions alone: any converter, any list, any option *)

PriorityKinds == {"png", "svg", "text"}
Priorities == SeqsUpTo(PriorityKinds, MaxPriorityLen) \cup {display_data_priority}

NextCtor ==
    \E c \in Converters, lst \in ListIds, ef \in BOOLEAN, tex \in BOOLEAN :
        \E prio \in {display_data_priority, <<"text", "png">>} :
            Construct(c, lst, ef, tex, prio)

SpecCtor == Init /\ [][NextCtor]_vars

-----------------------------------------------------------------------------
(* Format selection alone *)

SelectOutputs ==
    { [output_type |-> "display_data", data |-> [k \in ks |-> PayloadText]] :
        ks \in SUBSET PriorityKinds }

\* a template applies the filter filter_data_type to an output
FilterDataType(priority, output) ==
    /\ sel_priority' = priority
    /\ sel_output' = output
    /\ sel_result' = filter_data_type(priority, output)
    /\ UNCHANGED <<lists, conv, env_filters, nconstructed, nb0, pc, at, resources,
                   log, runs, vars_pure, returned>>

NextSelect ==
    \E priority \in Priorities, output \in SelectOutputs :
        FilterDataType(priority, output)

SpecSelect == Init /\ [][NextSelect]_vars


-----------------------------------------------------------------------------
(* escape_tex *)

MaxTexLen == 4

\* a rule of LATEX_SUBS: the pattern matches a run of at least min characters
\* of chars (a longer run too when the pattern ends in '+'); the replacement
\* is repl, followed by the matched character when it ends in '\1'
Backslash == 92
TextBackslash == <<92, 116, 101, 120, 116, 98, 97, 99, 107, 115, 108, 97, 115, 104>>
Ldots == <<92, 108, 100, 111, 116, 115>>

LATEX_SUBS_swapped ==
    << [chars |-> {123, 125, 95, 35, 37, 38, 36}, min |-> 1, plus |-> FALSE,
        repl |-> <<Backslash>>, group |-> TRUE],
       [chars |-> {Backslash}, min |-> 1, plus |-> FALSE,
        repl |-> TextBackslash, group |-> FALSE],
       [chars |-> {126}, min |-> 1, plus |-> FALSE,
        repl |-> <<Backslash, 126, 123, 125>>, group |-> FALSE],
       [chars |-> {94}, min |-> 1, plus |-> FALSE,
        repl |-> <<Backslash, 94, 123, 125>>, group |-> FALSE],
       [chars |-> {34}, min |-> 1, plus |-> FALSE,
        repl |-> <<39, 39>>, group |-> FALSE],
       [chars |-> {46}, min |-> 3, plus |-> TRUE,
        repl |-> Ldots, group |-> FALSE] >>

LATEX_SUBS ==
    << [chars |-> {Backslash}, min |-> 1, plus |-> FALSE,
        repl |-> TextBackslash, group |-> FALSE],
       [chars |-> {123, 125, 95, 35, 37, 38, 36}, min |-> 1, plus |-> FALSE,
        repl |-> <<Backslash>>, group |-> TRUE],
       [chars |-> {126}, min |-> 1, plus |-> FALSE,
        repl |-> <<Backslash, 126, 123, 125>>, group |-> FALSE],
       [chars |-> {94}, min |-> 1, plus |-> FALSE,
        repl |-> <<Backslash, 94, 123, 125>>, group |-> FALSE],
       [chars |-> {34}, min |-> 1, plus |-> FALSE,
        repl |-> <<39, 39>>, group |-> FALSE],
       [chars |-> {46}, min |-> 3, plus |-> TRUE,
        repl |-> Ldots, group |-> FALSE] >>

\* length of the run of characters of chars at the head of s
RECURSIVE RunLength(_, _)
RunLength(chars, s) ==
    IF s = << >> \/ Head(s) \notin chars THEN 0
    ELSE 1 + RunLength(chars, Tail(s))

\* pattern.sub(replacement, s): leftmost, non-overlapping matches
RECURSIVE ReSub(_, _)
ReSub(rule, s) ==
    IF s = << >> THEN << >>
    ELSE LET run == RunLength(rule.chars, s)
             taken == IF rule.plus THEN run ELSE rule.min
         IN  IF run >= rule.min
             THEN rule.repl \o (IF rule.group THEN <<Head(s)>> ELSE << >>)
                    \o ReSub(rule, SubSeq(s, taken + 1, Len(s)))
             ELSE <<Head(s)>> \o ReSub(rule, Tail(s))

\* the loop of escape_tex, from rule k on
RECURSIVE EscapeLoop(_, _)
EscapeLoop(newval, k) ==
    IF k > Len(LATEX_SUBS) THEN newval
    ELSE EscapeLoop(ReSub(LATEX_SUBS[k], newval), k + 1)

escape_tex(value) == EscapeLoop(value, 1)

\* the texts escape_tex is called with
TexChars == {97, 92, 123, 125, 37, 126, 94, 34, 46}
TexExample == <<49, 48, 48, 37, 32, 38, 32, 36, 53>>          \* '100% & $5'
TexValues == SeqsUpTo(TexChars, MaxTexLen) \cup {TexExample}

\* a template applies the filter escape_tex to a text
EscapeTex(value) ==
    /\ esc_value' = value
    /\ esc_result' = escape_tex(value)
    /\ UNCHANGED <<lists, conv, env_filters, nconstructed, nb0, pc, at, resources,
                   log, runs, sel_output, sel_priority, sel_result, returned,
                   fig_prev, fig_last>>

\* the calls do not depend on each other: one call is followed
NextEscape ==
    /\ esc_value = << >>
    /\ esc_result = << >>
    /\ \E value \in TexValues : EscapeTex(value)

SpecEscape == Init /\ [][NextEscape]_vars

-----------------------------------------------------------------------------
(* process() and convert() as whole calls, for any converter *)

ChoiceMarkdown == [cell_type |-> "markdown", has_outputs |-> FALSE, outputs |-> << >>]
ChoiceSvgPng ==
    [cell_type |-> "code", has_outputs |-> TRUE, outputs |-> <<OutputDisplaySvgPng>>]
ChoiceStreamPyout ==
    [cell_type |-> "code", has_outputs |-> TRUE, outputs |-> <<OutputStream, OutputPyoutPng>>]
ChoiceBad ==
    [cell_type |-> "code", has_outputs |-> TRUE, outputs |-> <<OutputDisplayBad>>]

\* the notebooks the converters of this part load
ConvertNotebooks ==
    { << <<ChoiceSvgPng, ChoiceStreamPyout>> >>,
      << <<ChoiceSvgPng, ChoiceBad>> >>,
      << <<ChoiceMarkdown>>, <<ChoiceStreamPyout>> >> }

\* the converter constructed besides Subject
Other == "B"

\* the display_data_priority each converter is constructed with
PriorityOf == [A |-> display_data_priority, B |-> <<"text", "png">>]

\* the loops of process() from the call pos on; a call that raises ends them
RECURSIVE ProcessLoopSwallow(_, _, _, _)
ProcessLoopSwallow(nb, other, pos, pre) ==
    IF pos.p > Len(pre) THEN [nb |-> nb, resources |-> other, raised |-> FALSE]
    ELSE LET r == CallFunction(pre[pos.p], nb[pos.w].cells[pos.i], other, pos.i - 1)
             nb2 == SetCell(nb, pos.w, pos.i, r.cell)
         IN  IF r.raised
             THEN [nb |-> nb2, resources |-> other, raised |-> FALSE]
             ELSE ProcessLoopSwallow(nb2, r.other, NextCall(pos, nb, Len(pre)), pre)

RECURSIVE ProcessLoop(_, _, _, _)
ProcessLoop(nb, other, pos, pre) ==
    IF pos.p > Len(pre) THEN [nb |-> nb, resources |-> other, raised |-> FALSE]
    ELSE LET r == CallFunction(pre[pos.p], nb[pos.w].cells[pos.i], other, pos.i - 1)
             nb2 == SetCell(nb, pos.w, pos.i, r.cell)
         IN  IF r.raised
             THEN [nb |-> nb2, resources |-> other, raised |-> TRUE]
             ELSE ProcessLoop(nb2, r.other, NextCall(pos, nb, Len(pre)), pre)

\* process() on a loaded notebook
process(nb, pre) == ProcessLoop(nb, NewResources, FirstCall(nb, Len(pre)), pre)

\* self.env
EnvOf(c) == IF conv[c].tex_environement THEN "texenv" ELSE "env"

\* the converter whose bound method self.env.filters['filter_data_type'] is
\* when the template of converter c is rendered: the one registered last in
\* that environment
FilterInEffect(c) == env_filters[EnvOf(c)]

\* what a call gave its caller: an exception, or the returned values; the text
\* of convert() is the rendering of the template with the filter in effect
Raised(m) == [called |-> TRUE, call |-> m, raised |-> TRUE]
ReturnedProcess(res) ==
    [called |-> TRUE, call |-> "process", raised |-> FALSE, resources |-> res]
ReturnedConvert(filter, res) ==
    [called |-> TRUE, call |-> "convert", raised |-> FALSE,
     text |-> [filter_data_type |-> filter], resources |-> res]

\* c.read(filename), for a file that holds the notebook MakeNotebook(chs)
Load(c, chs) ==
    /\ pc = "idle"
    /\ conv[c].constructed
    /\ ~conv[c].nb_loaded
    /\ conv' = [conv EXCEPT ![c].nb = MakeNotebook(chs), ![c].nb_loaded = TRUE]
    /\ UNCHANGED <<lists, env_filters, nconstructed, nb0, pc, at, resources, log, runs,
                   sel_output, sel_priority, sel_result, vars_pure, returned>>

\* c.process()
Process(c) ==
    /\ pc = "idle"
    /\ conv[c].constructed
    /\ IF ~conv[c].nb_loaded
       THEN /\ returned' = [returned EXCEPT ![c] = Raised("process")]
            /\ UNCHANGED conv
       ELSE LET r == process(conv[c].nb, Preprocessors(c)) IN
            /\ conv' = [conv EXCEPT ![c].nb = r.nb]
            /\ returned' = [returned EXCEPT ![c] =
                    IF r.raised THEN Raised("process") ELSE ReturnedProcess(r.resources)]
    /\ UNCHANGED <<lists, env_filters, nconstructed, nb0, pc, at, resources, log, runs,
                   sel_output, sel_priority, sel_result, vars_pure>>

\* c.convert()
Convert(c) ==
    /\ pc = "idle"
    /\ conv[c].constructed
    /\ IF ~conv[c].nb_loaded
       THEN /\ returned' = [returned EXCEPT ![c] = Raised("convert")]
            /\ UNCHANGED conv
       ELSE LET r == process(conv[c].nb, Preprocessors(c)) IN
            /\ conv' = [conv EXCEPT ![c].nb = r.nb]
            /\ returned' = [returned EXCEPT ![c] =
                    IF r.raised THEN Raised("convert")
                    ELSE ReturnedConvert(FilterInEffect(c), r.resources)]
    /\ UNCHANGED <<lists, env_filters, nconstructed, nb0, pc, at, resources, log, runs,
                   sel_output, sel_priority, sel_result, vars_pure>>

NextConvert ==
    \/ \E ef \in BOOLEAN : Construct(Subject, "default", ef, FALSE, PriorityOf[Subject])
    \/ \E tex \in BOOLEAN : Construct(Other, "default", TRUE, tex, PriorityOf[Other])
    \/ \E c \in Converters, chs \in ConvertNotebooks : Load(c, chs)
    \/ \E c \in Converters : Process(c)
    \/ \E c \in Converters : Convert(c)

SpecConvert == Init /\ [][NextConvert]_vars

-----------------------------------------------------------------------------
(* _new_figure as a function of its counter and kind *)

MaxCounter == 3

\* the counters _new_figure is called with: the small ones, and the ones
\* around the widths of two, three and four digits
FigureCounters == 0..MaxCounter \cup {9, 10, 99, 100, 101, 109, 110, 199, 1000, 1001}

\* _new_figure(data, fmt, count), for a payload that base64 decodes
CallNewFigure(count, fmt) ==
    /\ fig_prev' = fig_last
    /\ fig_last' = [count |-> count, fmt |-> fmt,
                    figname |-> new_figure(PayloadPngA, fmt, count).figname]
    /\ UNCHANGED <<lists, conv, env_filters, nconstructed, nb0, pc, at, resources, log,
                   runs, sel_output, sel_priority, sel_result, esc_value, esc_result,
                   returned>>

\* two calls, to compare their file names
NextFigure ==
    /\ fig_prev = NoFigure
    /\ \E count \in FigureCounters, t \in 1..Len(FigureTypes) :
            CallNewFigure(count, FigureTypes[t])

SpecFigure == Init /\ [][NextFigure]_vars

-----------------------------------------------------------------------------
(* Vocabulary of the properties *)

Range(f) == {f[x] : x \in DOMAIN f}

Loaded == conv[Subject].nb_loaded
Nb == conv[Subject].nb
Pipeline == Preprocessors(Subject)
ExtractEnabled == conv[Subject].extract_figures

\* the last call of process() returned; it was the k-th call since read()
Returned == pc = "idle" /\ Loaded /\ runs # << >> /\ ~runs[Len(runs)].raised
ReturnedRun(k) == pc = "idle" /\ Loaded /\ Len(runs) = k /\ \A r \in 1..k : ~runs[r].raised

CellPositions ==
    UNION { {<<w, i>> : i \in 1..Len(nb0[w].cells)} : w \in 1..Len(nb0) }

\* the (worksheet, cell, output, kind) positions of the loaded notebook that
\* carry an interesting kind
FigurePositions ==
    UNION { UNION { { <<cp[1], cp[2], o, k>> :
                        k \in {t \in Range(FigureTypes) :
                                 t \in DOMAIN nb0[cp[1]].cells[cp[2]].outputs[o].data} } :
                    o \in 1..Len(GetOutputs(nb0[cp[1]].cells[cp[2]])) } :
            cp \in CellPositions }

PayloadAt(pos) == nb0[pos[1]].cells[pos[2]].outputs[pos[3]].data[pos[4]]
ValueAt(pos) == Nb[pos[1]].cells[pos[2]].outputs[pos[3]].data[pos[4]]
DataAt(pos) == Nb[pos[1]].cells[pos[2]].outputs[pos[3]].data

TypeIndex(k) == CHOOSE t \in 1..Len(FigureTypes) : FigureTypes[t] = k

\* document order of the figure positions
Before(a, b) ==
    \/ a[1] < b[1]
    \/ a[1] = b[1] /\ a[2] < b[2]
    \/ a[1] = b[1] /\ a[2] = b[2] /\ a[3] < b[3]
    \/ a[1] = b[1] /\ a[2] = b[2] /\ a[3] = b[3] /\ TypeIndex(a[4]) < TypeIndex(b[4])

Rank(pos) == Cardinality({q \in FigurePositions : Before(q, pos)})

\* '_fig_<n as 2 digits>.<kind>' for n below 100
FigName(n, k) ==
    <<95, 102, 105, 103, 95, 48 + (n \div 10), 48 + (n % 10), 46>> \o KindStr[k]

\* base64 text of a byte string whose length is a multiple of 3
B64Char(v) ==
    IF v < 26 THEN 65 + v
    ELSE IF v < 52 THEN 97 + (v - 26)
    ELSE IF v < 62 THEN 48 + (v - 52)
    ELSE IF v = 62 THEN 43 ELSE 47

RECURSIVE B64Encode(_)
B64Encode(b) ==
    IF Len(b) < 3 THEN << >>
    ELSE << B64Char(b[1] \div 4),
            B64Char((b[1] % 4) * 16 + (b[2] \div 16)),
            B64Char((b[2] % 16) * 4 + (b[3] \div 64)),
            B64Char(b[3] % 64) >> \o B64Encode(SubSeq(b, 4, Len(b)))

BinaryKinds == {"png", "jpg", "pdf"}
TextKinds == {"svg", "html", "latex"}

-----------------------------------------------------------------------------
(* Properties *)

\* C1: after process() with figure extraction enabled, no two extracted
\* figures at distinct (worksheet, cell, output, kind) positions have the same
\* generated file name.
C1_UniqueFigureNames ==
    (ReturnedRun(1) /\ ExtractEnabled) =>
        \A a, b \in FigurePositions : a # b => ValueAt(a) # ValueAt(b)

\* C2: after process() with figure extraction enabled, every interesting kind
\* an output carried holds a generated file name f, 'key_<kind>' holds the
\* same f, f is a key of the returned resources and resources[f] is the
\* payload that output carried (its base64 text is the payload for png, jpg,
\* pdf; the payload itself for svg, html, latex).
C2_ResourceOfEachFigure ==
    (ReturnedRun(1) /\ ExtractEnabled) =>
        \A pos \in FigurePositions :
            LET f == ValueAt(pos)
                k == pos[4]
                res == runs[1].resources
            IN  /\ \E n \in 0..99 : f = FigName(n, k)
                /\ ("key_" \o k) \in DOMAIN DataAt(pos)
                /\ DataAt(pos)["key_" \o k] = f
                /\ f \in DOMAIN res
                /\ k \in BinaryKinds => B64Encode(res[f]) = PayloadAt(pos)
                /\ k \in TextKinds => res[f] = PayloadAt(pos)

\* C3: the k-th extracted figure (zero-based, every extracted (output, kind)
\* pair counted in document order across all cells and worksheets) is named
\* '_fig_<k as 2 digits>.<kind>'.
C3_RunningCounterNames ==
    (ReturnedRun(1) /\ ExtractEnabled) =>
        \A pos \in FigurePositions : ValueAt(pos) = FigName(Rank(pos), pos[4])

\* C4: process() keeps the number of worksheets, the number of cells of each
\* worksheet and their order: the cell at index i of worksheet w is the cell
\* that read() loaded there.
C4_CellsPreserved ==
    Loaded =>
        /\ Len(Nb) = Len(nb0)
        /\ \A w \in 1..Len(nb0) :
            /\ Len(Nb[w].cells) = Len(nb0[w].cells)
            /\ \A i \in 1..Len(nb0[w].cells) :
                /\ Nb[w].cells[i].source = nb0[w].cells[i].source
                /\ Nb[w].cells[i].cell_type = nb0[w].cells[i].cell_type

C4_Witness ==
    /\ Returned
    /\ "extract_figure_transformer" \in Range(Pipeline)
    /\ Len(nb0) = 2
    /\ Len(nb0[1].cells) = 2
    /\ Len(nb0[2].cells) = 1
    /\ FigurePositions # {}


\* C5: the pipeline the constructor builds has the output-flag transform as
\* its first transform, also when the caller supplies transforms, and holds
\* the figure-extraction transform, after the output-flag transform, if and
\* only if figure extraction is enabled for that converter.
C5_PipelineOfConstructor ==
    \A c \in Converters :
        conv[c].constructed =>
            /\ Preprocessors(c) # << >>
            /\ Preprocessors(c)[1] = "haspyout_transformer"
            /\ conv[c].extract_figures <=>
                    "extract_figure_transformer" \in Range(Preprocessors(c))

\* C6: process() applies the transforms in transform-major order: the calls
\* made so far are, in order, an initial part of the enumeration of all
\* (transform, worksheet, cell) triples by transform first, then worksheet,
\* then cell; when the loops end every triple has been called exactly once;
\* each call receives the resources map the call before it returned, the
\* first one the empty map.
CallKey(e) == <<e.p, e.w, e.i>>

KeyLess(a, b) ==
    \/ a[1] < b[1]
    \/ a[1] = b[1] /\ a[2] < b[2]
    \/ a[1] = b[1] /\ a[2] = b[2] /\ a[3] < b[3]

AllCalls ==
    {<<p, cp[1], cp[2]>> : p \in 1..Len(Pipeline), cp \in CellPositions}

C6_TransformMajorOrder ==
    pc = "running" =>
        /\ \A a, b \in 1..Len(log) : a < b => KeyLess(CallKey(log[a]), CallKey(log[b]))
        /\ \A a \in 1..Len(log) :
            /\ CallKey(log[a]) \in AllCalls
            /\ log[a].name = Pipeline[log[a].p]
            /\ \A k \in AllCalls :
                KeyLess(k, CallKey(log[a])) => \E b \in 1..(a - 1) : CallKey(log[b]) = k
        /\ at.p > Len(Pipeline) => Len(log) = Cardinality(AllCalls)
        /\ \A a \in 1..Len(log) :
            log[a].other = IF a = 1 THEN EmptyMap ELSE log[a - 1].returned
        /\ resources = IF log = << >> THEN EmptyMap ELSE log[Len(log)].returned

C6_Witness ==
    /\ pc = "running"
    /\ at.p > Len(Pipeline)
    /\ Len(Pipeline) >= 2
    /\ Len(nb0) = 2
    /\ Len(nb0[1].cells) >= 1
    /\ Len(nb0[2].cells) >= 1
    /\ Len(log) >= 4
    /\ resources # EmptyMap

Extends(new, old) ==
    /\ DOMAIN old \subseteq DOMAIN new
    /\ \A k \in DOMAIN old : new[k] = old[k]

C8_ResourcesLifecycle ==
    /\ pc = "running" =>
        /\ log = << >> => resources = EmptyMap
        /\ log # << >> => log[1].other = EmptyMap
        /\ \A a \in 1..Len(log) :
            /\ Extends(log[a].returned, log[a].other)
            /\ log[a].name = "haspyout_transformer" => log[a].returned = log[a].other
    /\ pc = "idle" => resources = EmptyMap

\* C9: after process() every cell carries the output flag, true exactly when
\* one of its outputs is of output_type 'pyout' (false for a cell without an
\* outputs field); the output-flag transform returns the resources map as
\* received, leaves the outputs of the cell as they are and does not raise.
HasPyoutOutput(cell) ==
    \E o \in 1..Len(GetOutputs(cell)) : GetOutputs(cell)[o].output_type = "pyout"

C9_OutputFlag ==
    /\ Returned =>
        \A cp \in CellPositions :
            LET cell == Nb[cp[1]].cells[cp[2]] IN
                /\ "haspyout" \in DOMAIN cell
                /\ cell.haspyout = HasPyoutOutput(nb0[cp[1]].cells[cp[2]])
    /\ pc = "running" =>
        \A a \in 1..Len(log) :
            log[a].name = "haspyout_transformer" => log[a].returned = log[a].other
    /\ (Loaded /\ "extract_figure_transformer" \notin Range(Pipeline)) =>
        /\ \A r \in 1..Len(runs) : ~runs[r].raised
        /\ \A cp \in CellPositions :
            LET cell == Nb[cp[1]].cells[cp[2]]
                cell0 == nb0[cp[1]].cells[cp[2]]
            IN  /\ ("outputs" \in DOMAIN cell) = ("outputs" \in DOMAIN cell0)
                /\ GetOutputs(cell) = GetOutputs(cell0)

C9_Witness ==
    /\ Returned
    /\ \E cp \in CellPositions :
        /\ Nb[cp[1]].cells[cp[2]].haspyout
        /\ Len(GetOutputs(nb0[cp[1]].cells[cp[2]])) = 2
    /\ \E cp \in CellPositions :
        /\ ~Nb[cp[1]].cells[cp[2]].haspyout
        /\ "outputs" \notin DOMAIN nb0[cp[1]].cells[cp[2]]
    /\ \E cp \in CellPositions :
        /\ ~Nb[cp[1]].cells[cp[2]].haspyout
        /\ "outputs" \in DOMAIN nb0[cp[1]].cells[cp[2]]

\* C10: format selection returns the first kind of the priority order that
\* is present in the output, and None when none is present; with the default
\* order it returns png for {text, png}, text for {text} and None for {}.
PresentAt(k) == k \in 1..Len(sel_priority) /\ sel_priority[k] \in DOMAIN sel_output.data

C10_FirstPresentKind ==
    /\ sel_result.none <=> ~\E k \in 1..Len(sel_priority) : PresentAt(k)
    /\ \A k \in 1..Len(sel_priority) :
        (PresentAt(k) /\ \A j \in 1..(k - 1) : ~PresentAt(j)) =>
            sel_result = ReturnList(<<sel_priority[k]>>)
    /\ sel_priority = display_data_priority =>
        /\ DOMAIN sel_output.data = {"text", "png"} => sel_result = ReturnList(<<"png">>)
        /\ DOMAIN sel_output.data = {"text"} => sel_result = ReturnList(<<"text">>)
        /\ DOMAIN sel_output.data = {} => sel_result = ReturnNone

C10_Witness ==
    /\ sel_priority = <<"text", "png">>
    /\ DOMAIN sel_output.data = {"text", "png", "svg"}
    /\ sel_result = ReturnList(<<"text">>)


\* C11: escape_tex applies its six rules in order and no later rule matches
\* text that an earlier rule wrote: the result is the input with every
\* reserved token of the input (backslash; { } _ # % & $; ~; ^; double quote;
\* run of three or more dots) replaced on its own in one pass. A text without
\* reserved token is returned as it is, and '100% & $5' gives '100\% \& \$5'.
RECURSIVE DotRun(_)
DotRun(s) == IF s # << >> /\ Head(s) = 46 THEN 1 + DotRun(Tail(s)) ELSE 0

RECURSIVE OnePass(_)
OnePass(s) ==
    IF s = << >> THEN << >>
    ELSE LET c == Head(s) IN
        IF c = 92 THEN TextBackslash \o OnePass(Tail(s))
        ELSE IF c \in {123, 125, 95, 35, 37, 38, 36} THEN <<92, c>> \o OnePass(Tail(s))
        ELSE IF c = 126 THEN <<92, 126, 123, 125>> \o OnePass(Tail(s))
        ELSE IF c = 94 THEN <<92, 94, 123, 125>> \o OnePass(Tail(s))
        ELSE IF c = 34 THEN <<39, 39>> \o OnePass(Tail(s))
        ELSE IF DotRun(s) >= 3 THEN Ldots \o OnePass(SubSeq(s, DotRun(s) + 1, Len(s)))
        ELSE <<c>> \o OnePass(Tail(s))

HasReservedToken(s) ==
    \/ \E k \in 1..Len(s) : s[k] \in {92, 123, 125, 95, 35, 37, 38, 36, 126, 94, 34}
    \/ \E k \in 1..(Len(s) - 2) : s[k] = 46 /\ s[k + 1] = 46 /\ s[k + 2] = 46

C11_EscapeInOnePass ==
    /\ esc_result = OnePass(esc_value)
    /\ ~HasReservedToken(esc_value) => esc_result = esc_value
    /\ esc_value = TexExample =>
            esc_result = <<49, 48, 48, 92, 37, 32, 92, 38, 32, 92, 36, 53>>

C11_Witness ==
    /\ esc_value = <<92, 123, 126, 46>>
    /\ esc_result = TextBackslash \o <<92, 123, 92, 126, 123, 125, 46>>

-----------------------------------------------------------------------------
(* Whole calls of process() and convert() *)

\* the cells and the outputs of the notebook of converter c
CellsOf(c) ==
    UNION { {<<w, i>> : i \in 1..Len(conv[c].nb[w].cells)} : w \in 1..Len(conv[c].nb) }
OutputsOf(c) ==
    UNION { {<<cp[1], cp[2], o>> :
                o \in 1..Len(GetOutputs(conv[c].nb[cp[1]].cells[cp[2]]))} : cp \in CellsOf(c) }
OutputOf(c, op) == conv[c].nb[op[1]].cells[op[2]].outputs[op[3]]

\* every transform has completed on every cell of the notebook of c, and
\* res names every figure of it
Complete(c, res) ==
    /\ \A cp \in CellsOf(c) : "haspyout" \in DOMAIN conv[c].nb[cp[1]].cells[cp[2]]
    /\ conv[c].extract_figures =>
        \A op \in OutputsOf(c) : \A t \in 1..Len(FigureTypes) :
            FigureTypes[t] \in DOMAIN OutputOf(c, op).data =>
                /\ ("key_" \o FigureTypes[t]) \in DOMAIN OutputOf(c, op).data
                /\ OutputOf(c, op).data[FigureTypes[t]] \in DOMAIN res

\* C12: convert() and process() never return partial output: a call that
\* returned did so on a loaded notebook, after every transform completed on
\* every cell, with the resources of every figure and, for convert(), the
\* rendered text; a call in which an error was raised, and every call before
\* read(), gave its caller the error and neither text nor resources.
C12_NoPartialOutput ==
    \A c \in Converters :
        LET r == returned[c] IN
        r.called =>
            \/ /\ r.raised
               /\ DOMAIN r = {"called", "call", "raised"}
            \/ /\ ~r.raised
               /\ conv[c].nb_loaded
               /\ "resources" \in DOMAIN r
               /\ Complete(c, r.resources)
               /\ r.call = "convert" => "text" \in DOMAIN r

\* Subject's convert() raised after figures of the first cell were extracted,
\* and Other's convert() returned the text and the resources of its figures
C12_Witness ==
    /\ returned[Subject].called /\ returned[Subject].call = "convert"
    /\ returned[Subject].raised
    /\ conv[Subject].nb_loaded
    /\ \E op \in OutputsOf(Subject) : "key_png" \in DOMAIN OutputOf(Subject, op).data
    /\ returned[Other].called /\ returned[Other].call = "convert"
    /\ ~returned[Other].raised
    /\ "text" \in DOMAIN returned[Other]
    /\ DOMAIN returned[Other].resources # {}

-----------------------------------------------------------------------------
(* Independence of the converters *)

\* C13: after any sequence of constructions each converter's transform list
\* is the transforms its caller supplied, then the output-flag transform once,
\* then the figure-extraction transform once if its own option is enabled and
\* not at all otherwise; no construction changes the list object a caller
\* passed in, nor the default list shared between constructions.
C13_IndependentPipelines ==
    /\ \A c \in Converters :
        conv[c].constructed =>
            Preprocessors(c) =
                AppendPreprocessors(InitialLists[conv[c].preprocessors],
                                    conv[c].extract_figures)
    /\ \A l \in ListIds : lists[l] = InitialLists[l]

\* C14: the format-selection filter in effect while a converter renders is
\* that converter's own: whatever the interleaving of the constructions and
\* convert() calls of two converters with different display-priority orders,
\* for every output of its notebook a convert() that returned selected the
\* representation that the converter's own display_data_priority selects.
C14_OwnFilterInEffect ==
    \A c \in Converters :
        LET r == returned[c] IN
        (r.called /\ ~r.raised /\ r.call = "convert") =>
            \A op \in OutputsOf(c) :
                filter_data_type(conv[r.text.filter_data_type].display_data_priority,
                                 OutputOf(c, op))
                    = filter_data_type(conv[c].display_data_priority, OutputOf(c, op))

-----------------------------------------------------------------------------
(* File names of the figures *)

\* the number that a string of decimal digits writes
RECURSIVE ParseDecimal(_)
ParseDecimal(digits) ==
    IF digits = << >> THEN 0
    ELSE 10 * ParseDecimal(SubSeq(digits, 1, Len(digits) - 1))
            + (digits[Len(digits)] - Chr.zero)

\* the part of a file name between '_fig_' and '.<kind>'
DigitsOf(fig) == SubSeq(fig.figname, 6, Len(fig.figname) - Len(KindStr[fig.fmt]) - 1)

WellFormedName(fig) ==
    /\ SubSeq(fig.figname, 1, 5) = <<Chr.us, Chr.f, Chr.i, Chr.g, Chr.us>>
    /\ SubSeq(fig.figname, Len(fig.figname) - Len(KindStr[fig.fmt]), Len(fig.figname))
            = <<Chr.dot>> \o KindStr[fig.fmt]
    /\ \A k \in 1..Len(DigitsOf(fig)) :
            DigitsOf(fig)[k] \in Chr.zero..(Chr.zero + 9)
    /\ ParseDecimal(DigitsOf(fig)) = fig.count
    /\ fig.count < 100 => Len(DigitsOf(fig)) = 2
    /\ fig.count >= 100 =>
            /\ Len(DigitsOf(fig)) > 2
            /\ DigitsOf(fig)[1] # Chr.zero

\* C15: file name generation is injective in (counter, kind): two calls of
\* _new_figure give the same name only for the same counter and the same
\* kind; a counter below 100 is written with exactly two digits, zero-padded,
\* and a counter of 100 or more with all its decimal digits, nothing
\* truncated and nothing wrapped around.
C15_FigureNameInjective ==
    /\ fig_last # NoFigure => WellFormedName(fig_last)
    /\ (fig_prev # NoFigure /\ fig_prev.figname = fig_last.figname) =>
            /\ fig_prev.count = fig_last.count
            /\ fig_prev.fmt = fig_last.fmt

\* counters 1 and 101, of the same kind, got different names of two and of
\* three digits
C15_Witness ==
    /\ fig_prev # NoFigure
    /\ fig_prev.count = 1 /\ fig_last.count = 101
    /\ fig_prev.fmt = "png" /\ fig_last.fmt = "png"
    /\ fig_prev.figname = <<95, 102, 105, 103, 95, 48, 49, 46, 112, 110, 103>>
    /\ fig_last.figname = <<95, 102, 105, 103, 95, 49, 48, 49, 46, 112, 110, 103>>

====
